---- MODULE Spec2Model ----
(***************************************************************************)
(* Model of the Explorer certification pipeline: the versioned ledger      *)
(* (kernel.py), the isolated chamber (sandbox.py) and the orchestrator     *)
(* (sentinel.py).                                                          *)
(***************************************************************************)
EXTENDS Integers, Sequences, FiniteSets, TLC

\* ------------------------------------------------------------------ bounds
\* identifiers handed to amend / handle_violation
Ids == {"a", "b", "c"}
\* time.strftime('%Y%m%d_%H%M%S') has one-second resolution; a timestamp is
\* the number of the second in which it was taken
MaxClock == 3
\* number of completed calls recorded in the call history
MaxHist == 4
\* number of completed calls in a run without a kill or an I/O error
MaxSeq == 5
\* number of injected faults (process kills and I/O errors) in one run
MaxFaults == 1
\* length of the test_inputs argument of run_genesis_experiment
MaxInputs == 2
\* number of Sentinel calls in one run
MaxCalls == 1

\* ------------------------------------------------------------- the ledger
VARIABLES
    clock,            \* the second of the last timestamp taken
    versions_dir,     \* versions/ directory: file name -> file content
    latest_link,      \* content of latest.link (NoFile: no pointer file)
    tmp_link,         \* content of latest.link.tmp (NoFile: absent)
    sovereign_ids,    \* Kernel.sovereign_ids
    version_file,     \* Kernel.version_file (NoFile: None)
    pc,               \* position of the single orchestration thread
    new_sovereign_id, \* argument of the amend in progress
    version_filename, \* local of amend / prev_version of rollback
    pre,              \* ledger state when the call in progress was entered
    hist              \* completed calls, oldest first

kvars == <<clock, versions_dir, latest_link, tmp_link, sovereign_ids,
           version_file, pc, new_sovereign_id, version_filename, pre, hist>>

\* ------------------------------------------- the orchestrator and chamber
VARIABLES
    vp_threshold,      \* Sentinel.vp_threshold
    vp_history,        \* Sentinel.vp_history
    spc,               \* position inside run_genesis_experiment
    stability,         \* stability_center and stability_envelope arguments
    test_inputs,       \* number of entries of the test_inputs argument
    inp,               \* index of the input the for loop is at
    vp_values,         \* local vp_values
    all_terminated,    \* local all_terminated
    timed_out,         \* local timed_out (Unbound before the first binding)
    resource_exceeded, \* local resource_exceeded
    exec_time,         \* local exec_time, in milliseconds
    mem_usage_mb,      \* local mem_usage_mb
    vp,                \* local vp
    traits,            \* local traits
    bound,             \* which of timed_out, resource_exceeded, vp are bound
    launched,          \* FALSE if the current input's chamber.run raised
    chamber_dir,       \* TRUE while the chamber's private directory exists
    result,            \* what the last run_genesis_experiment call gave back
    runs,              \* per input: what its chamber run and its VP were
    calls,             \* number of Sentinel calls made
    cpc,               \* position of IsolatedChamber.run
    tpc,               \* position of the watchdog thread of run
    proc,              \* state of the child process
    child,             \* how the launched command behaves
    overshoot,         \* TRUE if the child exceeds a resource ceiling
    phase,             \* wall-clock time since thread.start()
    run_timed_out,     \* local timed_out of run
    run_resource_exceeded, \* local resource_exceeded of run
    output,            \* local output of run
    killers            \* which statements have called proc.kill()

svars == <<vp_threshold, vp_history, spc, stability, test_inputs, inp,
           vp_values, all_terminated, timed_out, resource_exceeded,
           exec_time, mem_usage_mb, vp, traits, bound, launched, chamber_dir,
           result, runs, calls>>

cvars == <<cpc, tpc, proc, child, overshoot, phase, run_timed_out,
           run_resource_exceeded, output, killers>>

\* -------- the pipeline, two writers, the metric, the chamber's directory
VARIABLES
    genesis,           \* run_genesis_phase: what followed the last experiment
    kproc,             \* two processes, or two Kernel instances, on one
                       \* ledger directory
    renames,           \* the processes whose os.replace succeeded, in order
    metric,            \* arguments and result of a call into metrics.py
    ident,             \* two definitions and their sovereign_hash_id
    chamber_files      \* files of the chamber's directory: name -> the input
                       \* (its index in test_inputs) it was written for

xvars == <<genesis, kproc, renames, metric, ident, chamber_files>>

vars == <<kvars, svars, cvars, xvars>>

NoFile == 0
NoId == "none"
\* a directory without files
NoFiles == [f \in {} |-> 0]

\* a snapshot file between open(path, 'w') and the close that ends json.dump
Truncated == [ids |-> <<>>, complete |-> FALSE]
\* variant: only the identifier just added is written
JsonDump_mut(ids) ==
    [ids |-> IF ids = <<>> THEN <<>> ELSE <<ids[Len(ids)]>>, complete |-> TRUE]

\* json.dump(self.sovereign_ids, f): the entire list, flushed and closed
JsonDump(ids) == [ids |-> ids, complete |-> TRUE]
\* json.load(f) succeeds only on a completely written file
JsonValid(file) == file.complete
JsonLoad(file) == file.ids

Exists(name) == name \in DOMAIN versions_dir
WriteFile(dir, name, content) ==
    [f \in DOMAIN dir \cup {name} |-> IF f = name THEN content ELSE dir[f]]

\* sorted(os.listdir(self.versions_dir)): names embed the timestamp
RECURSIVE Sorted(_)
Sorted(S) ==
    IF S = {} THEN <<>>
    ELSE LET m == CHOOSE x \in S : \A y \in S : y <= x
         IN Append(Sorted(S \ {m}), m)

\* versions[-2]
PrevVersion(versions) == versions[Len(versions) - 1]

\* new_sovereign_id not in self.sovereign_ids
\* variant: only the first entry is compared
Contains_mut(ids, x) == Len(ids) > 0 /\ ids[1] = x
Contains(ids, x) == \E i \in 1..Len(ids) : ids[i] = x

Snapshot == [ids |-> sovereign_ids, link |-> latest_link, dir |-> versions_dir]
Call(op, arg, ret) == [op |-> op, arg |-> arg, ret |-> ret]
Faults == Cardinality({i \in 1..Len(hist) : hist[i].ret \in {"killed", "oserror"}})
\* a run without a fault makes up to MaxSeq calls, a run with one up to MaxHist
Budget == Len(hist) < (IF Faults = 0 THEN MaxSeq ELSE MaxHist)
FaultBudget == Faults < MaxFaults

\* ----------------------------------------------------------------- Init
\* Kernel() over an existing, empty data/kernel/versions directory
KInit ==
    /\ clock = 1
    /\ versions_dir = <<>>
    /\ latest_link = NoFile
    /\ tmp_link = NoFile
    /\ sovereign_ids = <<>>
    /\ version_file = NoFile
    /\ pc = "idle"
    /\ new_sovereign_id = NoId
    /\ version_filename = NoFile
    /\ pre = [ids |-> <<>>, link |-> NoFile, dir |-> <<>>]
    /\ hist = <<>>

\* ----------------------------------------------------------- Kernel.amend
\* amend, identifier already present: return False
AmendDup(x) ==
    /\ pc = "idle" /\ Budget
    /\ Contains(sovereign_ids, x)
    /\ pre' = Snapshot
    /\ hist' = Append(hist, Call("amend", x, "False"))
    /\ UNCHANGED <<clock, versions_dir, latest_link, tmp_link, sovereign_ids,
                   version_file, pc, new_sovereign_id, version_filename>>

\* amend, lines 34-38: append in memory, take the timestamp; the wall clock
\* shows the second of the previous timestamp or a later one
AmendBegin(x) ==
    /\ pc = "idle" /\ Budget
    /\ ~Contains(sovereign_ids, x)
    /\ pre' = Snapshot
    /\ sovereign_ids' = Append(sovereign_ids, x)
    /\ new_sovereign_id' = x
    /\ \E timestamp \in clock..MaxClock :
          /\ clock' = timestamp
          /\ version_filename' = timestamp
    /\ pc' = "amend_open"
    /\ UNCHANGED <<versions_dir, latest_link, tmp_link, version_file, hist>>

\* line 39: open(version_path, 'w') creates or truncates the file
AmendOpen ==
    /\ pc = "amend_open"
    /\ versions_dir' = WriteFile(versions_dir, version_filename, Truncated)
    /\ pc' = "amend_dump"
    /\ UNCHANGED <<clock, latest_link, tmp_link, sovereign_ids, version_file,
                   new_sovereign_id, version_filename, pre, hist>>

\* line 40 and the end of the with block: the list is written and closed
AmendDump ==
    /\ pc = "amend_dump"
    /\ versions_dir' = WriteFile(versions_dir, version_filename,
                                 JsonDump(sovereign_ids))
    /\ pc' = "amend_tmp"
    /\ UNCHANGED <<clock, latest_link, tmp_link, sovereign_ids, version_file,
                   new_sovereign_id, version_filename, pre, hist>>

\* variant: the new name is written into latest.link itself
AmendTmp_mut ==
    /\ pc = "amend_tmp"
    /\ latest_link' = version_filename
    /\ pc' = "amend_replace"
    /\ UNCHANGED <<clock, versions_dir, tmp_link, sovereign_ids,
                   version_file, new_sovereign_id, version_filename, pre,
                   hist>>

\* lines 42-44: the temporary pointer file
AmendTmp ==
    /\ pc = "amend_tmp"
    /\ tmp_link' = version_filename
    /\ pc' = "amend_replace"
    /\ UNCHANGED <<clock, versions_dir, latest_link, sovereign_ids,
                   version_file, new_sovereign_id, version_filename, pre,
                   hist>>

\* lines 45-47: os.replace, version_file, return True
AmendReplace ==
    /\ pc = "amend_replace"
    /\ latest_link' = tmp_link
    /\ tmp_link' = NoFile
    /\ version_file' = version_filename
    /\ pc' = "idle"
    /\ hist' = Append(hist, Call("amend", new_sovereign_id, "True"))
    /\ UNCHANGED <<clock, versions_dir, sovereign_ids, new_sovereign_id,
                   version_filename, pre>>

\* an OSError from open, write or os.replace leaves amend through no handler
AmendRaise ==
    /\ pc \in {"amend_open", "amend_dump", "amend_tmp", "amend_replace"}
    /\ FaultBudget
    /\ pc' = "idle"
    /\ hist' = Append(hist, Call("amend", new_sovereign_id, "oserror"))
    /\ UNCHANGED <<clock, versions_dir, latest_link, tmp_link, sovereign_ids,
                   version_file, new_sovereign_id, version_filename, pre>>

\* -------------------------------------------------------- Kernel.rollback
\* variant: with fewer than two files the ledger is reset to empty
RollbackNone_mut ==
    /\ pc = "idle" /\ Budget
    /\ Len(Sorted(DOMAIN versions_dir)) < 2
    /\ pre' = Snapshot
    /\ sovereign_ids' = <<>>
    /\ hist' = Append(hist, Call("rollback", NoId, "False"))
    /\ UNCHANGED <<clock, versions_dir, latest_link, tmp_link,
                   version_file, pc, new_sovereign_id, version_filename>>

\* lines 56-58: fewer than two files listed, return False
RollbackNone ==
    /\ pc = "idle" /\ Budget
    /\ Len(Sorted(DOMAIN versions_dir)) < 2
    /\ pre' = Snapshot
    /\ hist' = Append(hist, Call("rollback", NoId, "False"))
    /\ UNCHANGED <<clock, versions_dir, latest_link, tmp_link, sovereign_ids,
                   version_file, pc, new_sovereign_id, version_filename>>

\* lines 56-60: prev_version = versions[-2]
RollbackBegin ==
    /\ pc = "idle" /\ Budget
    /\ Len(Sorted(DOMAIN versions_dir)) >= 2
    /\ pre' = Snapshot
    /\ version_filename' = PrevVersion(Sorted(DOMAIN versions_dir))
    /\ pc' = "rb_tmp"
    /\ UNCHANGED <<clock, versions_dir, latest_link, tmp_link, sovereign_ids,
                   version_file, new_sovereign_id, hist>>

\* lines 62-64
RollbackTmp ==
    /\ pc = "rb_tmp"
    /\ tmp_link' = version_filename
    /\ pc' = "rb_replace"
    /\ UNCHANGED <<clock, versions_dir, latest_link, sovereign_ids,
                   version_file, new_sovereign_id, version_filename, pre,
                   hist>>

\* lines 65-66
RollbackReplace ==
    /\ pc = "rb_replace"
    /\ latest_link' = tmp_link
    /\ tmp_link' = NoFile
    /\ version_file' = version_filename
    /\ pc' = "rb_load"
    /\ UNCHANGED <<clock, versions_dir, sovereign_ids, new_sovereign_id,
                   version_filename, pre, hist>>

\* lines 67-69: json.load of the previous snapshot, return True; json.load
\* raises JSONDecodeError on a file that was never completely written
RollbackLoad ==
    /\ pc = "rb_load"
    /\ pc' = "idle"
    /\ IF JsonValid(versions_dir[version_filename])
       THEN /\ sovereign_ids' = JsonLoad(versions_dir[version_filename])
            /\ hist' = Append(hist, Call("rollback", NoId, "True"))
       ELSE /\ sovereign_ids' = sovereign_ids
            /\ hist' = Append(hist, Call("rollback", NoId, "raised"))
    /\ UNCHANGED <<clock, versions_dir, latest_link, tmp_link, version_file,
                   new_sovereign_id, version_filename, pre>>

\* an OSError from the pointer writes or from reading the snapshot
RollbackRaise ==
    /\ pc \in {"rb_tmp", "rb_replace", "rb_load"}
    /\ FaultBudget
    /\ pc' = "idle"
    /\ hist' = Append(hist, Call("rollback", NoId, "oserror"))
    /\ UNCHANGED <<clock, versions_dir, latest_link, tmp_link, sovereign_ids,
                   version_file, new_sovereign_id, version_filename, pre>>

\* ----------------------------------------------- process kill and restart
\* the process is killed at any step; memory is lost, the files stay
Crash ==
    /\ pc \notin {"crashed", "broken"} /\ FaultBudget
    /\ pc' = "crashed"
    /\ sovereign_ids' = <<>>
    /\ version_file' = NoFile
    /\ new_sovereign_id' = NoId
    /\ version_filename' = NoFile
    /\ hist' = Append(hist, Call("crash", NoId, "killed"))
    /\ UNCHANGED <<clock, versions_dir, latest_link, tmp_link, pre>>

\* what Kernel() over the directory as it is now ends up with: _load_state
\* reads latest.link and loads the snapshot it names; json.load raises on a
\* file that is not completely written
FreshKernel ==
    IF latest_link # NoFile
    THEN IF Exists(latest_link)
         THEN IF JsonValid(versions_dir[latest_link])
              THEN [status |-> "loaded",
                    sovereign_ids |-> JsonLoad(versions_dir[latest_link]),
                    version_file |-> latest_link]
              ELSE [status |-> "raised", sovereign_ids |-> <<>>,
                    version_file |-> latest_link]
         ELSE [status |-> "loaded", sovereign_ids |-> <<>>,
               version_file |-> latest_link]
    ELSE [status |-> "loaded", sovereign_ids |-> <<>>, version_file |-> NoFile]

\* Kernel.__init__ and _load_state in a new process
LoadState ==
    /\ pc = "crashed"
    /\ IF latest_link # NoFile
       THEN /\ version_file' = latest_link
            /\ IF Exists(latest_link)
               THEN IF JsonValid(versions_dir[latest_link])
                    THEN /\ sovereign_ids' = JsonLoad(versions_dir[latest_link])
                         /\ pc' = "idle"
                    ELSE /\ sovereign_ids' = <<>>
                         /\ pc' = "broken"
               ELSE /\ sovereign_ids' = <<>>
                    /\ pc' = "idle"
       ELSE /\ sovereign_ids' = <<>>
            /\ version_file' = NoFile
            /\ pc' = "idle"
    /\ UNCHANGED <<clock, versions_dir, latest_link, tmp_link,
                   new_sovereign_id, version_filename, pre, hist>>

\* ----------------------------------------------- Sentinel.handle_violation
\* line 208: Kernel has no get_function_uuids; AttributeError leaves the call
HandleViolation(offending_uuid) ==
    /\ pc = "idle" /\ Budget
    /\ pre' = Snapshot
    /\ hist' = Append(hist, Call("handle_violation", offending_uuid, "raised"))
    /\ UNCHANGED <<clock, versions_dir, latest_link, tmp_link, sovereign_ids,
                   version_file, pc, new_sovereign_id, version_filename>>

\* ------------------------------------------------------------- metrics.py
\* a VP is an exact fraction <<numerator, denominator>>, denominator > 0
Abs(x) == IF x < 0 THEN -x ELSE x

RECURSIVE Gcd(_, _)
Gcd(a, b) == IF b = 0 THEN a ELSE Gcd(b, a % b)

Rat(n, d) ==
    LET g == Gcd(Abs(n), Abs(d))
        sign == IF (n < 0) = (d < 0) THEN 1 ELSE -1
    IN <<sign * (Abs(n) \div g), Abs(d) \div g>>
RatAdd(p, q) == Rat(p[1] * q[2] + q[1] * p[2], p[2] * q[2])
RatLess(p, q) == p[1] * q[2] < q[1] * p[2]

\* variant: the exact-value branch returns the distance from ideal
OverflowRatioAt_far(x, ideal, lo, hi, eps) ==
    IF Abs(hi - lo) < eps
    THEN IF Abs(x - ideal) < eps THEN Rat(0, 1) ELSE Rat(Abs(x - ideal), 1)
    ELSE LET distance_from_ideal == Abs(x - ideal)
         IN IF x < lo THEN Rat(distance_from_ideal + (lo - x), hi - lo)
            ELSE IF x > hi THEN Rat(distance_from_ideal + (x - hi), hi - lo)
            ELSE Rat(distance_from_ideal, hi - lo)

\* variant: an envelope exactly 1e-10 wide counts as an exact value
OverflowRatioAt_wide(x, ideal, lo, hi, eps) ==
    IF Abs(hi - lo) <= eps
    THEN IF Abs(x - ideal) < eps THEN Rat(0, 1) ELSE Rat(1, 1)
    ELSE LET distance_from_ideal == Abs(x - ideal)
         IN IF x < lo THEN Rat(distance_from_ideal + (lo - x), hi - lo)
            ELSE IF x > hi THEN Rat(distance_from_ideal + (x - hi), hi - lo)
            ELSE Rat(distance_from_ideal, hi - lo)

\* _overflow_ratio, in exact arithmetic; x, ideal, lo and hi are whole
\* multiples of one unit and eps is 1e-10 in that unit
OverflowRatioAt(x, ideal, lo, hi, eps) ==
    IF Abs(hi - lo) < eps
    THEN IF Abs(x - ideal) < eps THEN Rat(0, 1) ELSE Rat(1, 1)
    ELSE LET distance_from_ideal == Abs(x - ideal)
         IN IF x < lo THEN Rat(distance_from_ideal + (lo - x), hi - lo)
            ELSE IF x > hi THEN Rat(distance_from_ideal + (x - hi), hi - lo)
            ELSE Rat(distance_from_ideal, hi - lo)

\* _overflow_ratio on measurements that are whole numbers (milliseconds,
\* megabytes, 0 or 1), for which abs(d) < 1e-10 is abs(d) < 1
OverflowRatio(x, ideal, lo, hi) == OverflowRatioAt(x, ideal, lo, hi, 1)

\* the loop of calculate_vp over the traits in keys, eps as in
\* OverflowRatioAt
RECURSIVE SumPartsAt(_, _, _, _, _)
SumPartsAt(keys, actual_traits, stability_center, stability_envelope, eps) ==
    IF keys = {} THEN Rat(0, 1)
    ELSE LET trait == CHOOSE k \in keys : TRUE
             ideal == IF trait \in DOMAIN stability_center
                      THEN stability_center[trait] ELSE 0
             part == OverflowRatioAt(actual_traits[trait], ideal,
                                     stability_envelope[trait][1],
                                     stability_envelope[trait][2], eps)
         IN RatAdd(part, SumPartsAt(keys \ {trait}, actual_traits,
                                    stability_center, stability_envelope,
                                    eps))

SumParts(keys, actual_traits, stability_center, stability_envelope) ==
    SumPartsAt(keys, actual_traits, stability_center, stability_envelope, 1)

\* variant: vp = part instead of vp += part, one trait's part is returned
CalculateVpAt_one(actual_traits, stability_center, stability_envelope, eps) ==
    LET keys == DOMAIN stability_envelope \cap DOMAIN actual_traits
    IN IF keys = {} THEN Rat(0, 1)
       ELSE SumPartsAt({CHOOSE k \in keys : TRUE}, actual_traits,
                       stability_center, stability_envelope, eps)

\* variant: a trait the actual vector lacks is measured as 0
CalculateVpAt_zero(actual_traits, stability_center, stability_envelope, eps) ==
    SumPartsAt(DOMAIN stability_envelope,
               [k \in DOMAIN stability_envelope |->
                   IF k \in DOMAIN actual_traits THEN actual_traits[k] ELSE 0],
               stability_center, stability_envelope, eps)

\* calculate_vp with weights=None, eps as in OverflowRatioAt
CalculateVpAt(actual_traits, stability_center, stability_envelope, eps) ==
    SumPartsAt(DOMAIN stability_envelope \cap DOMAIN actual_traits,
               actual_traits, stability_center, stability_envelope, eps)

\* calculate_vp with weights=None: every envelope trait that the actual
\* vector has, each with weight 1.0
CalculateVp(actual_traits, stability_center, stability_envelope) ==
    SumParts(DOMAIN stability_envelope \cap DOMAIN actual_traits,
             actual_traits, stability_center, stability_envelope)

\* ------------------------------------------------------------- sandbox.py
timeout_sec == 2
mem_limit_mb == 64

\* wall-clock time of a run that ends before the timeout, in milliseconds
FastMs == {5, 12}
\* resident memory of the orchestrating process, in MB
OwnRssMb == {1, 3}
\* phase 0: less than timeout_sec since thread.start(); phase 1: at least
\* timeout_sec; phase 2: at least timeout_sec + 1
ElapsedMs(ph) ==
    IF ph = 0 THEN FastMs
    ELSE IF ph = 1 THEN {timeout_sec * 1000}
    ELSE {(timeout_sec + 1) * 1000}

\* the child exits by itself before the timeout ("early"), within the grace
\* second after it ("grace"), or not at all ("never")
Behaviours == {"early", "grace", "never"}
ChildDue == proc = "running" /\ \/ child = "early" /\ phase = 0
                                \/ child = "grace" /\ phase = 1

\* proc.kill()
Kill(p) == IF p = "running" THEN "killed" ELSE p

\* lines 44-47 and 56-57: _run_in_job starts the process, the watchdog
\* thread is started
RunLaunch(beh, over) ==
    /\ cpc = "launch"
    /\ proc' = "running"
    /\ child' = beh
    /\ overshoot' = over
    /\ run_timed_out' = FALSE
    /\ run_resource_exceeded' = FALSE
    /\ output' = "empty"
    /\ killers' = {}
    /\ phase' = 0
    /\ tpc' = "communicate"
    /\ cpc' = "join"
    /\ UNCHANGED <<kvars, xvars, svars>>

\* the clock passes timeout_sec, then timeout_sec + 1
TimePass ==
    /\ cpc \in {"join", "alive", "kill", "join2"}
    /\ phase < 2
    /\ ~ChildDue
    /\ phase' = phase + 1
    /\ UNCHANGED <<kvars, xvars, svars, cpc, tpc, proc, child, overshoot,
                   run_timed_out, run_resource_exceeded, output, killers>>

\* the child process ends by itself
ChildExit ==
    /\ ChildDue
    /\ proc' = "exited"
    /\ UNCHANGED <<kvars, xvars, svars, cpc, tpc, child, overshoot, phase,
                   run_timed_out, run_resource_exceeded, output, killers>>

\* sandbox.py lines 29-35: the command runs with cwd=self.chamber_dir and may
\* write there; the file the unit leaves carries the input it ran on
UnitFile == "unit.out"
ChildWrite ==
    /\ proc = "running"
    /\ cpc \in {"join", "alive", "kill", "join2"}
    /\ ~(UnitFile \in DOMAIN chamber_files /\ chamber_files[UnitFile] = inp)
    /\ chamber_files' = WriteFile(chamber_files, UnitFile, inp)
    /\ UNCHANGED <<kvars, svars, cvars, genesis, kproc, renames, metric,
                   ident>>

\* target, lines 50-51: communicate returns once the process has ended,
\* with whatever the process wrote
ThreadCommunicate ==
    /\ tpc = "communicate"
    /\ proc \in {"exited", "killed"}
    /\ output' \in {"empty", "data"}
    /\ tpc' = "done"
    /\ UNCHANGED <<kvars, xvars, svars, cpc, proc, child, overshoot, phase,
                   run_timed_out, run_resource_exceeded, killers>>

\* target, line 52: communicate raises TimeoutExpired
ThreadTimeout ==
    /\ tpc = "communicate"
    /\ proc = "running"
    /\ phase >= 1
    /\ tpc' = "expired"
    /\ UNCHANGED <<kvars, xvars, svars, cpc, proc, child, overshoot, phase,
                   run_timed_out, run_resource_exceeded, output, killers>>

\* variant: the handler kills the process without recording the timeout
ThreadExpired_mut ==
    /\ tpc = "expired"
    /\ proc' = Kill(proc)
    /\ killers' = killers \cup {"target"}
    /\ tpc' = "done"
    /\ UNCHANGED <<kvars, xvars, svars, cpc, child, overshoot, phase, output,
                   run_timed_out, run_resource_exceeded>>

\* target, lines 53-55: the handler sets timed_out and kills the process
ThreadExpired ==
    /\ tpc = "expired"
    /\ run_timed_out' = TRUE
    /\ proc' = Kill(proc)
    /\ killers' = killers \cup {"target"}
    /\ tpc' = "done"
    /\ UNCHANGED <<kvars, xvars, svars, cpc, child, overshoot, phase, output,
                   run_resource_exceeded>>

\* line 58: thread.join(self.timeout_sec + 1) returns, the thread has ended
MainJoinDone ==
    /\ cpc = "join"
    /\ tpc = "done"
    /\ cpc' = "alive"
    /\ UNCHANGED <<kvars, xvars, svars, tpc, proc, child, overshoot, phase,
                   run_timed_out, run_resource_exceeded, output, killers>>

\* line 58: the join gives up after timeout_sec + 1
MainJoinExpire ==
    /\ cpc = "join"
    /\ tpc # "done"
    /\ phase = 2
    /\ cpc' = "alive"
    /\ UNCHANGED <<kvars, xvars, svars, tpc, proc, child, overshoot, phase,
                   run_timed_out, run_resource_exceeded, output, killers>>

\* lines 59-60: if thread.is_alive(): timed_out = True
MainIsAlive ==
    /\ cpc = "alive"
    /\ IF tpc # "done"
       THEN run_timed_out' = TRUE /\ cpc' = "kill"
       ELSE run_timed_out' = run_timed_out /\ cpc' = "sample"
    /\ UNCHANGED <<kvars, xvars, svars, tpc, proc, child, overshoot, phase,
                   run_resource_exceeded, output, killers>>

\* line 61: proc.kill()
MainKill ==
    /\ cpc = "kill"
    /\ proc' = Kill(proc)
    /\ killers' = killers \cup {"run"}
    /\ cpc' = "join2"
    /\ UNCHANGED <<kvars, xvars, svars, tpc, child, overshoot, phase,
                   run_timed_out, run_resource_exceeded, output>>

\* variant: the second join gives up like the first one
MainJoin_mut ==
    /\ cpc = "join2"
    /\ cpc' = "sample"
    /\ UNCHANGED <<kvars, svars, xvars, tpc, proc, child, overshoot, phase,
                   run_timed_out, run_resource_exceeded, output, killers>>

\* line 62: thread.join()
MainJoin ==
    /\ cpc = "join2"
    /\ tpc = "done"
    /\ cpc' = "sample"
    /\ UNCHANGED <<kvars, xvars, svars, tpc, proc, child, overshoot, phase,
                   run_timed_out, run_resource_exceeded, output, killers>>

\* lines 64-72: psutil.Process(proc.pid) raises NoSuchProcess for a process
\* that is gone (swallowed); a process killed a moment ago may still be
\* there and is sampled
MainSample ==
    /\ cpc = "sample"
    /\ \E seen \in (IF proc = "killed" THEN {TRUE, FALSE} ELSE {FALSE}) :
          IF seen /\ overshoot
          THEN /\ run_resource_exceeded' = TRUE
               /\ killers' = killers \cup {"sample"}
          ELSE /\ run_resource_exceeded' = run_resource_exceeded
               /\ killers' = killers
    /\ cpc' = "ret"
    /\ UNCHANGED <<kvars, xvars, svars, tpc, proc, child, overshoot, phase,
                   run_timed_out, output>>

\* ------------------------------------------------------------ sentinel.py
\* vp_threshold of data/config.json
Thresholds == {1, 2}

NoTraits == [speed_ms |-> 0, memory_mb |-> 0, reliability |-> 0]
Center == [speed_ms |-> 0, memory_mb |-> 0, reliability |-> 1]
\* the arguments stability_center, stability_envelope of a call
Stabilities ==
    { [center |-> Center,
       envelope |-> [speed_ms |-> <<0, 10>>, memory_mb |-> <<0, 2>>,
                     reliability |-> <<1, 1>>]],
      [center |-> Center,
       envelope |-> [speed_ms |-> <<0, 4000>>, memory_mb |-> <<0, 128>>]] }

NoResult == [status |-> "none", certified |-> FALSE, vp_values |-> <<>>]

\* no call in progress, nothing measured yet
SInit ==
    /\ vp_history = <<>>
    /\ spc = "idle"
    /\ stability = CHOOSE st \in Stabilities : TRUE
    /\ test_inputs = 0
    /\ inp = 0
    /\ vp_values = <<>>
    /\ all_terminated = TRUE
    /\ timed_out = FALSE
    /\ resource_exceeded = FALSE
    /\ exec_time = 0
    /\ mem_usage_mb = 0
    /\ vp = Rat(0, 1)
    /\ traits = NoTraits
    /\ bound = {}
    /\ launched = FALSE
    /\ chamber_dir = FALSE
    /\ result = NoResult
    /\ runs = <<>>
    /\ calls = 0

CInit ==
    /\ cpc = "off"
    /\ tpc = "off"
    /\ proc = "none"
    /\ child = "early"
    /\ overshoot = FALSE
    /\ phase = 0
    /\ run_timed_out = FALSE
    /\ run_resource_exceeded = FALSE
    /\ output = "empty"
    /\ killers = {}

\* run_genesis_experiment, lines 36-38
ExperimentBegin(st, n) ==
    /\ spc = "idle"
    /\ calls < MaxCalls
    /\ calls' = calls + 1
    /\ stability' = st
    /\ test_inputs' = n
    /\ inp' = 0
    /\ chamber_dir' = TRUE
    /\ vp_values' = <<>>
    /\ all_terminated' = TRUE
    /\ bound' = {}
    /\ result' = NoResult
    /\ runs' = <<>>
    /\ spc' = "loop"
    \* a new frame and a new IsolatedChamber: nothing of an earlier call
    /\ timed_out' = FALSE
    /\ resource_exceeded' = FALSE
    /\ exec_time' = 0
    /\ mem_usage_mb' = 0
    /\ vp' = Rat(0, 1)
    /\ traits' = NoTraits
    /\ launched' = FALSE
    /\ cpc' = "off"
    /\ tpc' = "off"
    /\ proc' = "none"
    /\ child' = "early"
    /\ overshoot' = FALSE
    /\ phase' = 0
    /\ run_timed_out' = FALSE
    /\ run_resource_exceeded' = FALSE
    /\ output' = "empty"
    /\ killers' = {}
    /\ genesis' = [call |-> 0, outcome |-> "none"]
    \* sandbox.py line 17: tempfile.mkdtemp, a new and empty directory
    /\ chamber_files' = NoFiles
    /\ UNCHANGED <<kvars, kproc, renames, metric, ident, vp_threshold,
                   vp_history>>

\* lines 40-48: the next input is written to input.txt, chamber.run is called
LoopNext ==
    /\ spc = "loop"
    /\ inp < test_inputs
    /\ inp' = inp + 1
    \* lines 42-44: open(input_file, 'w') in the one directory of the call
    /\ chamber_files' = WriteFile(chamber_files, "input.txt", inp + 1)
    /\ spc' = "run"
    /\ cpc' = "launch"
    /\ UNCHANGED <<kvars, genesis, kproc, renames, metric, ident, vp_threshold, vp_history, stability, test_inputs,
                   vp_values, all_terminated, timed_out, resource_exceeded,
                   exec_time, mem_usage_mb, vp, traits, bound, launched,
                   chamber_dir, result, runs, calls, tpc, proc, child,
                   overshoot, phase, run_timed_out, run_resource_exceeded,
                   output, killers>>

\* lines 42-44: open or write of input.txt raises OSError; the statement is
\* outside the try block, the exception leaves run_genesis_experiment
InputWriteRaise ==
    /\ spc = "loop"
    /\ inp < test_inputs
    /\ result' = [NoResult EXCEPT !.status = "raised"]
    /\ spc' = "idle"
    /\ UNCHANGED <<kvars, xvars, cvars, vp_threshold, vp_history, stability,
                   test_inputs, inp, vp_values, all_terminated, timed_out,
                   resource_exceeded, exec_time, mem_usage_mb, vp, traits,
                   bound, launched, chamber_dir, runs, calls>>

\* line 40: the for loop is exhausted
LoopEnd ==
    /\ spc = "loop"
    /\ inp = test_inputs
    /\ spc' = "post"
    /\ UNCHANGED <<kvars, xvars, cvars, vp_threshold, vp_history, stability,
                   test_inputs, inp, vp_values, all_terminated, timed_out,
                   resource_exceeded, exec_time, mem_usage_mb, vp, traits,
                   bound, launched, chamber_dir, result, runs, calls>>

\* sandbox.py line 44: _run_in_job raises, run has no handler, the exception
\* reaches line 60 of run_genesis_experiment
RunLaunchFail ==
    /\ cpc = "launch"
    /\ cpc' = "off"
    /\ spc' = "except"
    /\ UNCHANGED <<kvars, xvars, vp_threshold, vp_history, stability, test_inputs,
                   inp, vp_values, all_terminated, timed_out,
                   resource_exceeded, exec_time, mem_usage_mb, vp, traits,
                   bound, launched, chamber_dir, result, runs, calls, tpc,
                   proc, child, overshoot, phase, run_timed_out,
                   run_resource_exceeded, output, killers>>

\* sandbox.py lines 73-74 and sentinel.py lines 48-54: run returns, the tuple
\* is unpacked, the time and the orchestrator's own memory are measured
MainReturn ==
    /\ cpc = "ret"
    /\ cpc' = "off"
    /\ tpc' = "off"
    /\ timed_out' = run_timed_out
    /\ resource_exceeded' = run_resource_exceeded
    /\ bound' = bound \cup {"timed_out", "resource_exceeded"}
    /\ exec_time' \in ElapsedMs(phase)
    /\ mem_usage_mb' \in OwnRssMb
    /\ launched' = TRUE
    /\ spc' = "traits"
    /\ UNCHANGED <<kvars, xvars, vp_threshold, vp_history, stability, test_inputs,
                   inp, vp_values, all_terminated, vp, traits, chamber_dir,
                   result, runs, calls, proc, child, overshoot, phase,
                   run_timed_out, run_resource_exceeded, output, killers>>

\* lines 60-63: except Exception
ExceptHandler ==
    /\ spc = "except"
    /\ exec_time' \in FastMs
    /\ mem_usage_mb' = 0
    /\ launched' = FALSE
    /\ spc' = "traits"
    /\ UNCHANGED <<kvars, xvars, cvars, vp_threshold, vp_history, stability,
                   test_inputs, inp, vp_values, all_terminated, timed_out,
                   resource_exceeded, vp, traits, bound, chamber_dir, result,
                   runs, calls>>

\* lines 67-76: the trait vector and its VP; reading resource_exceeded or
\* timed_out before any run has bound them raises UnboundLocalError
MeasureTraits ==
    /\ spc = "traits"
    /\ IF {"timed_out", "resource_exceeded"} \subseteq bound
       THEN LET mem == IF resource_exceeded THEN mem_limit_mb
                       ELSE mem_usage_mb
                tr == [speed_ms |-> exec_time, memory_mb |-> mem,
                       reliability |-> IF timed_out THEN 0 ELSE 1]
                v == CalculateVp(tr, stability.center, stability.envelope)
            IN /\ mem_usage_mb' = mem
               /\ traits' = tr
               /\ vp' = v
               /\ bound' = bound \cup {"vp"}
               /\ runs' = Append(runs,
                    [launched |-> launched,
                     timed_out |-> launched /\ timed_out,
                     resource_exceeded |-> launched /\ resource_exceeded,
                     vp |-> v])
               /\ spc' = "loop"
               /\ UNCHANGED result
       ELSE /\ result' = [NoResult EXCEPT !.status = "raised"]
            /\ spc' = "idle"
            /\ UNCHANGED <<mem_usage_mb, traits, vp, bound, runs>>
    /\ UNCHANGED <<kvars, xvars, cvars, vp_threshold, vp_history, stability,
                   test_inputs, inp, vp_values, all_terminated, timed_out,
                   resource_exceeded, exec_time, launched, chamber_dir,
                   calls>>

\* lines 77-95, after the loop: one append to vp_values and to vp_history,
\* all_terminated, cleanup, the verdict; vp is unbound if the loop body
\* never ran. cleanup (sandbox.py lines 76-82) swallows every exception of
\* os.remove and os.rmdir, and then the directory stays
Conclude ==
    /\ spc = "post"
    /\ IF "vp" \in bound
       THEN LET values == Append(vp_values, vp)
                terminated == IF timed_out \/ resource_exceeded THEN FALSE
                              ELSE all_terminated
                certified ==
                    /\ terminated
                    /\ \A k \in 1..Len(values) :
                          RatLess(values[k], Rat(vp_threshold, 1))
            IN /\ vp_values' = values
               /\ vp_history' = Append(vp_history,
                    [vp |-> vp, traits |-> traits,
                     context |-> "genesis_experiment"])
               /\ all_terminated' = terminated
               /\ \E swallowed \in BOOLEAN :
                     /\ chamber_dir' = swallowed
                     /\ IF swallowed
                        THEN \E left \in SUBSET DOMAIN chamber_files :
                                chamber_files' =
                                    [f \in left |-> chamber_files[f]]
                        ELSE chamber_files' = NoFiles
               /\ result' = [status |-> "returned", certified |-> certified,
                             vp_values |-> values]
       ELSE /\ result' = [NoResult EXCEPT !.status = "raised"]
            /\ UNCHANGED <<vp_values, vp_history, all_terminated,
                           chamber_dir, chamber_files>>
    /\ spc' = "idle"
    /\ UNCHANGED <<kvars, genesis, kproc, renames, metric, ident, cvars,
                   vp_threshold, stability, test_inputs, inp,
                   timed_out, resource_exceeded, exec_time, mem_usage_mb, vp,
                   traits, bound, launched, runs, calls>>

KNext ==
    \/ \E x \in Ids : AmendDup(x)
    \/ \E x \in Ids : AmendBegin(x)
    \/ AmendOpen
    \/ AmendDump
    \/ AmendTmp
    \/ AmendReplace
    \/ AmendRaise
    \/ RollbackNone
    \/ RollbackBegin
    \/ RollbackTmp
    \/ RollbackReplace
    \/ RollbackLoad
    \/ RollbackRaise
    \/ Crash
    \/ LoadState
    \/ \E x \in Ids : HandleViolation(x)

\* ------------------------------------------------- Sentinel.monitor_kernel
\* operation_traits handed to monitor_kernel
OperationTraits ==
    { [speed_ms |-> 2, memory_mb |-> 1, reliability |-> 1],
      [speed_ms |-> 5, memory_mb |-> 1, reliability |-> 1],
      [speed_ms |-> 12, memory_mb |-> 1, reliability |-> 1],
      [speed_ms |-> 5, memory_mb |-> 1, reliability |-> 0] }

\* variant: a VP equal to the threshold counts as a violation
Monitor_mut(operation_traits, st) ==
    /\ spc = "idle"
    /\ calls < MaxCalls
    /\ calls' = calls + 1
    /\ LET v == CalculateVp(operation_traits, st.center, st.envelope)
       IN /\ vp_history' = Append(vp_history,
                [vp |-> v, traits |-> operation_traits,
                 context |-> "sovereign_monitoring"])
          /\ result' = [status |-> "monitored",
                        violation |-> ~RatLess(v, Rat(vp_threshold, 1)),
                        vp |-> v,
                        operation_traits |-> operation_traits,
                        stability |-> st]
    /\ UNCHANGED <<kvars, xvars, cvars, vp_threshold, spc, stability,
                   test_inputs, inp, vp_values, all_terminated, timed_out,
                   resource_exceeded, exec_time, mem_usage_mb, vp, traits,
                   bound, launched, chamber_dir, runs>>

\* lines 188-202: the VP of the given traits, violation_detected =
\* vp > self.vp_threshold, one entry appended to vp_history
Monitor(operation_traits, st) ==
    /\ spc = "idle"
    /\ calls < MaxCalls
    /\ calls' = calls + 1
    /\ LET v == CalculateVp(operation_traits, st.center, st.envelope)
       IN /\ vp_history' = Append(vp_history,
                [vp |-> v, traits |-> operation_traits,
                 context |-> "sovereign_monitoring"])
          /\ result' = [status |-> "monitored",
                        violation |-> RatLess(Rat(vp_threshold, 1), v),
                        vp |-> v,
                        operation_traits |-> operation_traits,
                        stability |-> st]
    /\ UNCHANGED <<kvars, xvars, cvars, vp_threshold, spc, stability,
                   test_inputs, inp, vp_values, all_terminated, timed_out,
                   resource_exceeded, exec_time, mem_usage_mb, vp, traits,
                   bound, launched, chamber_dir, runs>>

\* ------------------------------------------------- main.py, run_genesis_phase
\* lines 228-238 after run_genesis_experiment has returned: for a certified
\* unit line 230 imports deterministic_uuid_v5 from identity, which defines
\* only sovereign_hash_id and canonical_serialize: ImportError, and line 233
\* (self.kernel.amend) is not reached
GenesisAfterExperiment ==
    /\ spc = "idle"
    /\ result.status = "returned"
    /\ genesis.call < calls
    /\ genesis' = [call |-> calls,
                   outcome |-> IF result.certified THEN "ImportError"
                               ELSE "not_certified"]
    /\ UNCHANGED <<kvars, svars, cvars, kproc, renames, metric, ident,
                   chamber_files>>

\* nothing of the pipeline, the second writer or the metric is in use
NoIdent == [d1 |-> <<>>, d2 |-> <<>>, id1 |-> <<>>, id2 |-> <<>>, done |-> FALSE]
NoMetric == [x |-> 0, y |-> 0, ideal |-> 0, lo |-> 0, hi |-> 0,
             rx |-> <<0, 1>>, ry |-> <<0, 1>>, done |-> FALSE]
XInit ==
    /\ genesis = [call |-> 0, outcome |-> "none"]
    /\ kproc = <<>>
    /\ renames = <<>>
    /\ metric = NoMetric
    /\ ident = NoIdent
    /\ chamber_files = NoFiles

\* run_genesis_experiment with IsolatedChamber.run inside it
SNext ==
    \/ \E st \in Stabilities, n \in 0..MaxInputs : ExperimentBegin(st, n)
    \/ LoopNext
    \/ InputWriteRaise
    \/ LoopEnd
    \/ \E beh \in Behaviours, over \in BOOLEAN : RunLaunch(beh, over)
    \/ RunLaunchFail
    \/ TimePass
    \/ ChildExit
    \/ ChildWrite
    \/ ThreadCommunicate
    \/ ThreadTimeout
    \/ ThreadExpired
    \/ MainJoinDone
    \/ MainJoinExpire
    \/ MainIsAlive
    \/ MainKill
    \/ MainJoin
    \/ MainSample
    \/ MainReturn
    \/ ExceptHandler
    \/ MeasureTraits
    \/ Conclude
    \/ \E tr \in OperationTraits, st \in Stabilities : Monitor(tr, st)
    \/ GenesisAfterExperiment

\* the ledger alone, the orchestrator at rest
Init == KInit /\ SInit /\ CInit /\ XInit /\ vp_threshold = 1
Next == KNext /\ UNCHANGED <<svars, cvars, xvars>>
Spec == Init /\ [][Next]_vars

\* --------------------------------- two processes in amend on one directory
\* each process has its own Kernel over the same versions/ directory; both
\* use the one path latest.link.tmp (kernel.py line 42)
Procs == {1, 2}
\* the distinct identifiers the two processes add
ArgOf(p) == IF p = 1 THEN "a" ELSE "b"
\* content of a pointer file that is open for writing and still empty
EmptyLink == -1

\* the single-instance ledger variables, the orchestrator and the metric
\* take no step while the two processes run
SingleInstanceIdle ==
    UNCHANGED <<sovereign_ids, version_file, pc, new_sovereign_id,
                version_filename, pre, hist, svars, cvars, genesis, metric,
                ident, chamber_files>>

\* lines 34-38: membership test, append in memory, timestamp
PAmendBegin(p) ==
    /\ kproc[p].pc = "idle"
    /\ ~Contains(kproc[p].ids, ArgOf(p))
    /\ \E timestamp \in clock..MaxClock :
          /\ clock' = timestamp
          /\ kproc' = [kproc EXCEPT
                ![p].ids = Append(kproc[p].ids, ArgOf(p)),
                ![p].fname = timestamp,
                ![p].pc = "amend_open"]
    /\ UNCHANGED <<versions_dir, latest_link, tmp_link, renames>>
    /\ SingleInstanceIdle

\* line 39: open(version_path, 'w') creates or truncates the file
PAmendOpen(p) ==
    /\ kproc[p].pc = "amend_open"
    /\ versions_dir' = WriteFile(versions_dir, kproc[p].fname, Truncated)
    /\ kproc' = [kproc EXCEPT ![p].pc = "amend_dump"]
    /\ UNCHANGED <<clock, latest_link, tmp_link, renames>>
    /\ SingleInstanceIdle

\* line 40 and the close: the process's whole list is in the file
PAmendDump(p) ==
    /\ kproc[p].pc = "amend_dump"
    /\ versions_dir' = WriteFile(versions_dir, kproc[p].fname,
                                 JsonDump(kproc[p].ids))
    /\ kproc' = [kproc EXCEPT ![p].pc = "amend_tmp"]
    /\ UNCHANGED <<clock, latest_link, tmp_link, renames>>
    /\ SingleInstanceIdle

\* line 43: open(tmp_link, 'w') creates latest.link.tmp or truncates the one
\* that is there; the handle stays on that file
PTmpOpen(p) ==
    /\ kproc[p].pc = "amend_tmp"
    /\ tmp_link' = EmptyLink
    /\ kproc' = [kproc EXCEPT ![p].pc = "amend_write", ![p].fd = "tmp"]
    /\ UNCHANGED <<clock, versions_dir, latest_link, renames>>
    /\ SingleInstanceIdle

\* line 44 and the close: the name goes into the file the handle is on,
\* which is latest.link if the other process has renamed it meanwhile
PTmpWrite(p) ==
    /\ kproc[p].pc = "amend_write"
    /\ IF kproc[p].fd = "tmp"
       THEN tmp_link' = kproc[p].fname /\ UNCHANGED latest_link
       ELSE latest_link' = kproc[p].fname /\ UNCHANGED tmp_link
    /\ kproc' = [kproc EXCEPT ![p].pc = "amend_replace", ![p].fd = "none"]
    /\ UNCHANGED <<clock, versions_dir, renames>>
    /\ SingleInstanceIdle

\* lines 45-47: os.replace(tmp_link, self.latest_link), return True; with no
\* latest.link.tmp left os.replace raises FileNotFoundError
PReplace(p) ==
    /\ kproc[p].pc = "amend_replace"
    /\ IF tmp_link # NoFile
       THEN /\ latest_link' = tmp_link
            /\ tmp_link' = NoFile
            /\ renames' = Append(renames, p)
            /\ kproc' = [q \in Procs |->
                  IF q = p
                  THEN [kproc[q] EXCEPT !.pc = "done", !.ret = "True"]
                  ELSE IF kproc[q].fd = "tmp"
                       THEN [kproc[q] EXCEPT !.fd = "link"]
                       ELSE kproc[q]]
       ELSE /\ kproc' = [kproc EXCEPT ![p].pc = "done", ![p].ret = "raised"]
            /\ UNCHANGED <<latest_link, tmp_link, renames>>
    /\ UNCHANGED <<clock, versions_dir>>
    /\ SingleInstanceIdle

\* the ledgers the two processes may find: empty, or one version holding "c"
Ledgers == {<<>>, <<"c">>}

ConcurrentInit ==
    /\ SInit /\ CInit /\ vp_threshold = 1
    /\ genesis = [call |-> 0, outcome |-> "none"]
    /\ metric = NoMetric
    /\ ident = NoIdent
    /\ chamber_files = NoFiles
    /\ renames = <<>>
    /\ clock = 1
    /\ tmp_link = NoFile
    /\ sovereign_ids = <<>>
    /\ version_file = NoFile
    /\ pc = "idle"
    /\ new_sovereign_id = NoId
    /\ version_filename = NoFile
    /\ pre = [ids |-> <<>>, link |-> NoFile, dir |-> <<>>]
    /\ hist = <<>>
    /\ \E led \in Ledgers :
          /\ versions_dir = IF led = <<>> THEN <<>> ELSE (1 :> JsonDump(led))
          /\ latest_link = IF led = <<>> THEN NoFile ELSE 1
          /\ kproc = [p \in Procs |->
                [pc |-> "idle", ids |-> led, fname |-> NoFile, fd |-> "none",
                 ret |-> "none"]]

ConcurrentNext ==
    \/ \E p \in Procs : PAmendBegin(p)
    \/ \E p \in Procs : PAmendOpen(p)
    \/ \E p \in Procs : PAmendDump(p)
    \/ \E p \in Procs : PTmpOpen(p)
    \/ \E p \in Procs : PTmpWrite(p)
    \/ \E p \in Procs : PReplace(p)

SpecConcurrent == ConcurrentInit /\ [][ConcurrentNext]_vars

\* ------------------------------------------------ _overflow_ratio by itself
\* arguments in units of 5e-11, from -MaxQ to MaxQ units
MaxQ == 3
Quanta == (0 - MaxQ)..MaxQ
\* 1e-10 in units of 5e-11
epsilon == 2

\* two calls with the same ideal and envelope, for actual values x and y
OverflowRatioCall ==
    /\ ~metric.done
    /\ metric' = [metric EXCEPT
          !.rx = OverflowRatioAt(metric.x, metric.ideal, metric.lo, metric.hi,
                                 epsilon),
          !.ry = OverflowRatioAt(metric.y, metric.ideal, metric.lo, metric.hi,
                                 epsilon),
          !.done = TRUE]
    /\ UNCHANGED <<kvars, svars, cvars, genesis, kproc, renames, ident,
                   chamber_files>>

MetricsInit ==
    /\ KInit /\ SInit /\ CInit /\ vp_threshold = 1
    /\ genesis = [call |-> 0, outcome |-> "none"]
    /\ kproc = <<>>
    /\ renames = <<>>
    /\ ident = NoIdent
    /\ chamber_files = NoFiles
    /\ metric \in [x : Quanta, y : Quanta, ideal : Quanta, lo : Quanta,
                    hi : Quanta, rx : {Rat(0, 1)}, ry : {Rat(0, 1)},
                    done : {FALSE}]
MetricsNext == OverflowRatioCall
SpecMetrics == MetricsInit /\ [][MetricsNext]_vars

\* ---------------------------------------------------- calculate_vp by itself
\* values of the first trait, in units of 5e-11, from -MaxV to MaxV
MaxV == 2
Units == (0 - MaxV)..MaxV
TraitNames == {"speed_ms", "memory_mb"}

\* dicts over some of the trait names; the second trait takes few values
ActualDicts ==
    UNION {{f \in [D -> Units] :
               "memory_mb" \in D => f["memory_mb"] \in {0, 1, 2}} :
           D \in SUBSET TraitNames}
CenterDicts ==
    UNION {{f \in [D -> Units] : "memory_mb" \in D => f["memory_mb"] = 0} :
           D \in SUBSET TraitNames}
EnvelopeDicts ==
    UNION {{f \in [D -> Units \X Units] :
               /\ \A k \in D : f[k][1] <= f[k][2]
               /\ "memory_mb" \in D => f["memory_mb"] \in {<<0, 0>>, <<0, 2>>}} :
           D \in SUBSET TraitNames}

CalculateVpCall ==
    /\ ~metric.done
    /\ metric' = [metric EXCEPT
          !.vp = CalculateVpAt(metric.actual_traits, metric.stability_center,
                               metric.stability_envelope, epsilon),
          !.done = TRUE]
    /\ UNCHANGED <<kvars, svars, cvars, genesis, kproc, renames, ident,
                   chamber_files>>

VpInit ==
    /\ KInit /\ SInit /\ CInit /\ vp_threshold = 1
    /\ genesis = [call |-> 0, outcome |-> "none"]
    /\ kproc = <<>>
    /\ renames = <<>>
    /\ ident = NoIdent
    /\ chamber_files = NoFiles
    /\ metric \in [actual_traits : ActualDicts, stability_center : CenterDicts,
                    stability_envelope : EnvelopeDicts, vp : {Rat(0, 1)},
                    done : {FALSE}]
VpNext == CalculateVpCall
SpecVp == VpInit /\ [][VpNext]_vars

\* ------------------------------------------------------------- identity.py
\* a definition is a dict: its items <<key, value>> in insertion order, no
\* key twice; at most MaxKeys items
MaxKeys == 2
TraitKeys == {"code", "type", "version"}
TraitValues == {1, 2}
\* the place of a key in the order sort_keys=True puts the keys in
KeyRank(k) == IF k = "code" THEN 1 ELSE IF k = "type" THEN 2 ELSE 3

Definitions ==
    UNION {{d \in [1..n -> TraitKeys \X TraitValues] :
               \A i, j \in 1..n : i # j => d[i][1] # d[j][1]} :
           n \in 0..MaxKeys}

\* variant: the items are written in insertion order
SortKeys_mut(d) == d

\* json.dumps(..., sort_keys=True): the items ordered by key
RECURSIVE SortKeys(_)
SortKeys(d) ==
    IF d = <<>> THEN <<>>
    ELSE LET i == CHOOSE i \in 1..Len(d) :
                     \A j \in 1..Len(d) : KeyRank(d[i][1]) <= KeyRank(d[j][1])
             rest == [j \in 1..(Len(d) - 1) |-> IF j < i THEN d[j] ELSE d[j + 1]]
         IN <<d[i]>> \o SortKeys(rest)

\* hashlib.sha256(text).hexdigest(): 64 hexadecimal digits that are a
\* function of the text alone; the digest here tells the texts of the model
\* apart, which is all that is used of SHA-256
RECURSIVE TextNumber(_)
TextNumber(text) ==
    IF text = <<>> THEN 1
    ELSE LET last == text[Len(text)]
         IN TextNumber(SubSeq(text, 1, Len(text) - 1)) * 16
               + KeyRank(last[1]) * 4 + last[2]

RECURSIVE HexDigits(_, _)
HexDigits(h, n) ==
    IF n = 0 THEN <<>> ELSE <<h % 16>> \o HexDigits(h \div 16, n - 1)

Sha256Hex(text) == HexDigits(TextNumber(text), 64)

\* s[:n]
Prefix(seq, n) == SubSeq(seq, 1, IF Len(seq) < n THEN Len(seq) ELSE n)

\* sovereign_hash_id(traits) with the default namespace; traits is the
\* definition
sovereign_hash_id(definition) == Prefix(Sha256Hex(SortKeys(definition)), 16)

\* the function is called on two definitions
HashCall ==
    /\ ~ident.done
    /\ ident' = [ident EXCEPT !.id1 = sovereign_hash_id(ident.d1),
                              !.id2 = sovereign_hash_id(ident.d2),
                              !.done = TRUE]
    /\ UNCHANGED <<kvars, svars, cvars, genesis, kproc, renames, metric,
                   chamber_files>>

IdentityInit ==
    /\ KInit /\ SInit /\ CInit /\ vp_threshold = 1
    /\ genesis = [call |-> 0, outcome |-> "none"]
    /\ kproc = <<>>
    /\ renames = <<>>
    /\ metric = NoMetric
    /\ ident \in [d1 : Definitions, d2 : Definitions, id1 : {<<>>},
                   id2 : {<<>>}, done : {FALSE}]
    /\ chamber_files = NoFiles
IdentityNext == HashCall
SpecIdentity == IdentityInit /\ [][IdentityNext]_vars

\* ----------------------------- two Kernel instances on one ledger directory
\* main.py line 83 and sentinel.py line 9: the controller and the Sentinel
\* each construct a Kernel() over data/kernel in the one process; the single
\* orchestration thread makes one call at a time on either of them
Insts == {"controller", "sentinel"}
\* number of calls made on the two instances together
MaxOps == 4

\* the list in the version latest.link names
PointedIds ==
    IF latest_link # NoFile /\ Exists(latest_link)
    THEN JsonLoad(versions_dir[latest_link])
    ELSE <<>>

InstCall(k, op, arg, ret, before, after) ==
    [inst |-> k, op |-> op, arg |-> arg, ret |-> ret, before |-> before,
     after |-> after]

\* the one-instance ledger variables, the orchestrator and the metric take
\* no step
TwoIdle ==
    UNCHANGED <<sovereign_ids, version_file, pc, new_sovereign_id,
                version_filename, pre, tmp_link, renames, svars, cvars,
                genesis, metric, ident, chamber_files>>

\* amend on instance k, lines 48-49: the identifier is in k's list
InstAmendDup(k, x) ==
    /\ Len(hist) < MaxOps
    /\ Contains(kproc[k].ids, x)
    /\ hist' = Append(hist, InstCall(k, "amend", x, "False", PointedIds,
                                     PointedIds))
    /\ UNCHANGED <<clock, versions_dir, latest_link, kproc>>
    /\ TwoIdle

\* amend on instance k, lines 34-47: k's own list with x appended is the new
\* snapshot, the pointer is renamed onto it
InstAmend(k, x) ==
    /\ Len(hist) < MaxOps
    /\ ~Contains(kproc[k].ids, x)
    /\ \E timestamp \in clock..MaxClock :
          LET ids == Append(kproc[k].ids, x)
          IN /\ clock' = timestamp
             /\ versions_dir' = WriteFile(versions_dir, timestamp,
                                          JsonDump(ids))
             /\ latest_link' = timestamp
             /\ kproc' = [kproc EXCEPT ![k] = [ids |-> ids,
                                               version_file |-> timestamp]]
             /\ hist' = Append(hist, InstCall(k, "amend", x, "True",
                                              PointedIds, ids))
    /\ TwoIdle

\* rollback on instance k, lines 56-58
InstRollbackNone(k) ==
    /\ Len(hist) < MaxOps
    /\ Len(Sorted(DOMAIN versions_dir)) < 2
    /\ hist' = Append(hist, InstCall(k, "rollback", NoId, "False",
                                     PointedIds, PointedIds))
    /\ UNCHANGED <<clock, versions_dir, latest_link, kproc>>
    /\ TwoIdle

\* rollback on instance k, lines 59-69: the pointer goes to versions[-2],
\* whose content becomes k's list
InstRollback(k) ==
    /\ Len(hist) < MaxOps
    /\ Len(Sorted(DOMAIN versions_dir)) >= 2
    /\ LET prev_version == PrevVersion(Sorted(DOMAIN versions_dir))
           ids == JsonLoad(versions_dir[prev_version])
       IN /\ latest_link' = prev_version
          /\ kproc' = [kproc EXCEPT ![k] = [ids |-> ids,
                                            version_file |-> prev_version]]
          /\ hist' = Append(hist, InstCall(k, "rollback", NoId, "True",
                                           PointedIds, ids))
    /\ UNCHANGED <<clock, versions_dir>>
    /\ TwoIdle

\* both instances are constructed over the empty ledger
TwoInit ==
    /\ KInit /\ SInit /\ CInit /\ vp_threshold = 1
    /\ genesis = [call |-> 0, outcome |-> "none"]
    /\ renames = <<>>
    /\ metric = NoMetric
    /\ ident = NoIdent
    /\ chamber_files = NoFiles
    /\ kproc = [k \in Insts |-> [ids |-> <<>>, version_file |-> NoFile]]

TwoNext ==
    \/ \E k \in Insts, x \in Ids : InstAmendDup(k, x)
    \/ \E k \in Insts, x \in Ids : InstAmend(k, x)
    \/ \E k \in Insts : InstRollbackNone(k)
    \/ \E k \in Insts : InstRollback(k)

SpecTwoKernels == TwoInit /\ [][TwoNext]_vars

\* the orchestrator and its chamber; the scheduler runs both threads of
\* chamber.run and the clock moves on
SentinelInit ==
    KInit /\ SInit /\ CInit /\ XInit /\ vp_threshold \in Thresholds
WatchdogThread == ThreadCommunicate \/ ThreadTimeout \/ ThreadExpired
RunThread ==
    MainJoinDone \/ MainJoinExpire \/ MainIsAlive \/ MainKill \/ MainJoin
    \/ MainSample
SpecSentinel ==
    /\ SentinelInit
    /\ [][SNext]_vars
    /\ WF_vars(WatchdogThread)
    /\ WF_vars(RunThread)
    /\ WF_vars(TimePass)
    /\ WF_vars(ChildExit)

\* ------------------------------------------------------------- properties
Last(h) == h[Len(h)]
Returned(op) == pc = "idle" /\ hist # <<>> /\ Last(hist).op = op

\* C1: whenever the pointer file exists it names a snapshot file that exists
\* and holds a completely written identifier list
C1_PointerNamesCompleteSnapshot ==
    latest_link # NoFile =>
        Exists(latest_link) /\ JsonValid(versions_dir[latest_link])

\* C2: amend(x) directly after an amend(x) that returned True returns False
\* and changes neither the identifier list, nor the snapshot files, nor the
\* pointer
C2_AmendTwiceIsNoOp ==
    [][\A x \in Ids :
         ( /\ hist # <<>>
           /\ Last(hist) = Call("amend", x, "True")
           /\ Len(hist') = Len(hist) + 1
           /\ Last(hist').op = "amend"
           /\ Last(hist').arg = x )
         => /\ Last(hist').ret = "False"
            /\ UNCHANGED <<sovereign_ids, versions_dir, latest_link>>]_vars

C2_Witness ==
    \E x \in Ids :
        /\ Len(hist) >= 2
        /\ hist[Len(hist) - 1] = Call("amend", x, "True")
        /\ hist[Len(hist)] = Call("amend", x, "False")
        /\ Len(sovereign_ids) >= 2

\* C3: rollback entered with fewer than two snapshot files returns False and
\* leaves the identifier list, the pointer and the snapshot files as they were
C3_RollbackBoundary ==
    [][( /\ Len(hist') = Len(hist) + 1
         /\ Last(hist').op = "rollback"
         /\ Cardinality(DOMAIN pre'.dir) < 2 )
       => /\ Last(hist').ret = "False"
          /\ Snapshot' = pre'
          /\ UNCHANGED <<sovereign_ids, versions_dir, latest_link, tmp_link,
                         version_file>>]_vars

C3_Witness ==
    /\ Returned("rollback")
    /\ Last(hist).ret = "False"
    /\ Cardinality(DOMAIN versions_dir) = 1
    /\ latest_link # NoFile
    /\ sovereign_ids # <<>>

\* C4: from the empty ledger, amend(a) and amend(b) with a # b both returning
\* True and then rollback: rollback returns True and the list is <<a>>
C4_RollbackAfterTwoAmends ==
    \A a, b \in Ids :
        ( /\ a # b
          /\ pc = "idle"
          /\ Len(hist) = 3
          /\ hist[1] = Call("amend", a, "True")
          /\ hist[2] = Call("amend", b, "True")
          /\ hist[3].op = "rollback" )
        => hist[3].ret = "True" /\ sovereign_ids = <<a>>

\* C5: a completely written snapshot file is never changed by a later step
C5_SnapshotsImmutable ==
    [][\A f \in DOMAIN versions_dir :
         JsonValid(versions_dir[f]) =>
             f \in DOMAIN versions_dir' /\ versions_dir'[f] = versions_dir[f]]_vars

\* C6: in a run without kill or I/O error, a rollback that returned True has
\* moved the pointer to the snapshot immediately preceding the one that was
\* current on entry, and the list in memory is that snapshot's content
C6_RollbackToPreceding ==
    ( /\ Returned("rollback")
      /\ Last(hist).ret = "True"
      /\ Faults = 0 )
    => \E g \in DOMAIN pre.dir :
          /\ g < pre.link
          /\ \A h \in DOMAIN pre.dir : h < pre.link => h <= g
          /\ latest_link = g
          /\ sovereign_ids = JsonLoad(versions_dir[g])

\* C9: once control has left handle_violation(id) for an id that was in the
\* ledger, id is not in the visible identifier list
C9_EjectedIsAbsent ==
    ( /\ Returned("handle_violation")
      /\ Contains(pre.ids, Last(hist).arg) )
    => ~Contains(sovereign_ids, Last(hist).arg)

\* what the spec calls terminated lawfully, for the k-th input of the call
Lawful(k) == ~runs[k].timed_out /\ ~runs[k].resource_exceeded
ExperimentReturned == spc = "idle" /\ result.status = "returned"

\* C7: when every input's process was launched, run_genesis_experiment
\* returns certified = TRUE exactly if every input's chamber run set neither
\* timed_out nor resource_exceeded and every input's VP is below vp_threshold
C7_CertifiedIffAllLawful ==
    ( /\ ExperimentReturned
      /\ \A k \in 1..Len(runs) : runs[k].launched )
    => ( result.certified <=>
           \A k \in 1..Len(runs) :
               Lawful(k) /\ RatLess(runs[k].vp, Rat(vp_threshold, 1)) )

\* C8: when every input's process was launched, the returned VP list has one
\* value per input, the k-th being the VP computed for the k-th input
C8_OneVpPerInput ==
    ( /\ ExperimentReturned
      /\ \A k \in 1..Len(runs) : runs[k].launched )
    =>
        /\ Len(result.vp_values) = test_inputs
        /\ \A k \in 1..test_inputs : result.vp_values[k] = runs[k].vp

\* C10: whenever the watchdog (the target thread, or run after the join
\* expired) has killed the process, run returns timed_out = TRUE; and for a
\* child that never ends, run gets to its return with the process killed and
\* timed_out = TRUE
C10_TimeoutSurfaced ==
    /\ [](cpc = "ret" /\ killers \cap {"target", "run"} # {} => run_timed_out)
    /\ (cpc = "join" /\ child = "never")
           ~> (cpc = "ret" /\ proc = "killed" /\ run_timed_out)

C10_Witness ==
    /\ cpc = "ret"
    /\ child = "never"
    /\ proc = "killed"
    /\ "target" \in killers
    /\ run_timed_out

\* C11: no exception leaves chamber.run: control never reaches the except
\* clause that run_genesis_experiment puts around the call
C11_LaunchFailureContained == spc # "except"

\* C12: when the child went over the memory or CPU-time ceiling, run returns
\* resource_exceeded = TRUE
C12_OvershootSurfaced == (cpc = "ret" /\ overshoot) => run_resource_exceeded

\* C13: once control has left run_genesis_experiment, by return or by
\* exception, the chamber's private directory no longer exists
C13_ChamberTornDown ==
    (spc = "idle" /\ result.status \in {"returned", "raised"}) => ~chamber_dir

\* C14: monitor_kernel returns the VP of its arguments and violation = TRUE
\* exactly if that VP is greater than vp_threshold; the call changes neither
\* the ledger nor a chamber
C14_MonitorVerdict ==
    [][(calls' = calls + 1 /\ result'.status = "monitored")
       => LET v == CalculateVp(result'.operation_traits,
                               result'.stability.center,
                               result'.stability.envelope)
          IN /\ result'.vp = v
             /\ result'.violation <=> (v[1] > vp_threshold * v[2])
             /\ UNCHANGED <<kvars, cvars, chamber_dir>>]_vars

C14_Witness ==
    /\ result.status = "monitored"
    /\ result.vp = Rat(vp_threshold, 1)
    /\ ~result.violation

\* C17: once the pipeline is past an experiment that returned certified =
\* TRUE, amend has been called with the unit's identifier and the ledger's
\* visible list holds an identifier
C17_CertifiedIsRecorded ==
    ( /\ spc = "idle"
      /\ result.status = "returned"
      /\ result.certified
      /\ genesis.call = calls )
    => genesis.outcome = "amended" /\ sovereign_ids # <<>>

\* C15: when open, write or os.replace fails inside amend or rollback, the
\* call ends with the error instead of a return value and latest.link holds
\* what it held when the call began
C15_FailedWriteKeepsPointer ==
    [][(/\ pc \in {"amend_open", "amend_dump", "amend_tmp", "amend_replace",
                   "rb_tmp", "rb_replace"}
        /\ hist' # hist
        /\ Last(hist').ret \notin {"True", "False"}
        /\ Last(hist').ret # "killed")
       => /\ Last(hist').ret = "oserror"
          /\ pc' = "idle"
          /\ latest_link' = pre.link]_vars

\* os.replace of amend has failed: the temporary pointer is written, the
\* pointer still names the earlier version
C15_Witness ==
    /\ Returned("amend")
    /\ Last(hist).ret = "oserror"
    /\ tmp_link # NoFile
    /\ latest_link # NoFile
    /\ tmp_link # latest_link
    /\ latest_link = pre.link

\* every call so far returned True or False
AllCompleted ==
    /\ pc = "idle"
    /\ \A i \in 1..Len(hist) :
          hist[i].op \in {"amend", "rollback"} /\ hist[i].ret \in {"True", "False"}

\* C18: after completed amend and rollback calls a Kernel constructed anew
\* over the directory loads the list the running instance holds; without a
\* pointer file it holds the empty list and no current version
C18_FreshKernelAgrees ==
    AllCompleted
    => /\ FreshKernel.status = "loaded"
       /\ FreshKernel.sovereign_ids = sovereign_ids
       /\ latest_link = NoFile
          => FreshKernel.sovereign_ids = <<>> /\ FreshKernel.version_file = NoFile

\* amend, amend, rollback, amend: two identifiers in memory and on disk
C18_Witness ==
    /\ AllCompleted
    /\ Len(hist) >= 3
    /\ \E i \in 1..Len(hist) : hist[i].op = "rollback" /\ hist[i].ret = "True"
    /\ Last(hist).op = "amend" /\ Last(hist).ret = "True"
    /\ Len(sovereign_ids) >= 2
    /\ FreshKernel.sovereign_ids = sovereign_ids

\* C19 as stated: with lo = hi the ratio is 0 at actual = ideal and 1 at
\* every other actual value
C19_ExactTraitAsStated ==
    (metric.done /\ metric.lo = metric.hi)
    => metric.rx = (IF metric.x = metric.ideal THEN Rat(0, 1) ELSE Rat(1, 1))

\* C19, amended: with lo = hi the ratio is 0 when actual is less than 1e-10
\* away from ideal and 1 for every other actual value, however far
C19_ExactTrait ==
    (metric.done /\ metric.lo = metric.hi)
    => /\ Abs(metric.x - metric.ideal) < epsilon => metric.rx = <<0, 1>>
       /\ Abs(metric.x - metric.ideal) >= epsilon => metric.rx = <<1, 1>>

\* two deviations of different size, both answered with 1
C19_Witness ==
    /\ metric.done
    /\ metric.lo = metric.hi
    /\ Abs(metric.x - metric.ideal) = epsilon
    /\ Abs(metric.y - metric.ideal) > 2 * epsilon
    /\ metric.rx = <<1, 1>>
    /\ metric.ry = <<1, 1>>

Inside(v) == metric.lo <= v /\ v <= metric.hi
Distance(v) == Abs(v - metric.ideal)

SameSide(v, w) ==
    /\ \/ v < metric.lo /\ w < metric.lo
       \/ v > metric.hi /\ w > metric.hi
    /\ \/ v <= metric.ideal /\ w <= metric.ideal
       \/ v >= metric.ideal /\ w >= metric.ideal

FreshNames ==
    /\ kproc[1].fname # kproc[2].fname
    /\ \A p \in Procs : kproc[p].fname # 1

BothDone == \A p \in Procs : kproc[p].pc = "done"

\* C16: two processes in amend with distinct identifiers: both calls
\* return, the pointer file always holds the name of a completely written
\* snapshot, at the end it names the snapshot of the process that renamed
\* last, and the snapshot of the other process is still there
C16_ConcurrentAmend ==
    FreshNames
    => /\ \A p \in Procs : kproc[p].pc = "done" => kproc[p].ret = "True"
       /\ latest_link # NoFile
          => /\ latest_link # EmptyLink
             /\ Exists(latest_link)
             /\ JsonValid(versions_dir[latest_link])
       /\ BothDone
          => /\ Len(renames) = 2
             /\ latest_link = kproc[Last(renames)].fname
             /\ \A p \in Procs :
                   /\ Exists(kproc[p].fname)
                   /\ versions_dir[kproc[p].fname] = JsonDump(kproc[p].ids)

\* the traits calculate_vp looks at, and the ideal it takes for each
Present == DOMAIN metric.stability_envelope \cap DOMAIN metric.actual_traits
Ideal(k) ==
    IF k \in DOMAIN metric.stability_center THEN metric.stability_center[k]
    ELSE 0

Without(f, k) == [j \in DOMAIN f \ {k} |-> f[j]]
With(f, k, v) == [j \in DOMAIN f \cup {k} |-> IF j = k THEN v ELSE f[j]]

\* C29: the VP is that of the traits present in both the envelope and the
\* actual vector: taking out of the envelope a trait the actual vector
\* lacks, or putting into the actual vector a key the envelope lacks, gives
\* the same VP
C29_OnlySharedTraitsCount ==
    metric.done
    => \A k \in TraitNames :
          /\ (k \in DOMAIN metric.stability_envelope
              /\ k \notin DOMAIN metric.actual_traits)
             => CalculateVpAt(metric.actual_traits, metric.stability_center,
                              Without(metric.stability_envelope, k), epsilon)
                = metric.vp
          /\ k \notin DOMAIN metric.stability_envelope
             => \A v \in Units :
                   CalculateVpAt(With(metric.actual_traits, k, v),
                                 metric.stability_center,
                                 metric.stability_envelope, epsilon)
                   = metric.vp

\* the envelope has a trait the actual vector lacks, the other trait is
\* measured away from its ideal
C29_Witness ==
    /\ metric.done
    /\ "memory_mb" \in DOMAIN metric.stability_envelope
    /\ "memory_mb" \notin DOMAIN metric.actual_traits
    /\ "speed_ms" \in Present
    /\ RatLess(<<0, 1>>, metric.vp)

\* the keys and values of a definition, whatever the order of insertion
Items(d) == {d[i] : i \in 1..Len(d)}

\* C22: two definitions with the same keys and values get the same
\* identifier whatever the order their keys were inserted in, and every
\* identifier has 16 characters
C22_IdentityCanonical ==
    ident.done
    => /\ Items(ident.d1) = Items(ident.d2) => ident.id1 = ident.id2
       /\ Len(ident.id1) = 16
       /\ Len(ident.id2) = 16

\* the same two items inserted in either order
C22_Witness ==
    /\ ident.done
    /\ Len(ident.d1) = 2
    /\ ident.d1 # ident.d2
    /\ Items(ident.d1) = Items(ident.d2)
    /\ ident.id1 = ident.id2

\* C23: when amend(x) has returned True the identifier list is the list
\* from before the call with x appended, and the snapshot the pointer names
\* holds that whole list
C23_AmendAppends ==
    (Returned("amend") /\ Last(hist).ret = "True")
    => /\ sovereign_ids = Append(pre.ids, Last(hist).arg)
       /\ latest_link # NoFile
       /\ Exists(latest_link)
       /\ versions_dir[latest_link] = [ids |-> sovereign_ids, complete |-> TRUE]

C23_Witness ==
    /\ Returned("amend")
    /\ Last(hist).ret = "True"
    /\ Len(pre.ids) >= 1
    /\ Len(sovereign_ids) = Len(pre.ids) + 1
    /\ versions_dir[latest_link].ids = sovereign_ids

NoDuplicates(ids) == \A i, j \in 1..Len(ids) : ids[i] = ids[j] => i = j

\* C24: from the empty ledger on, neither the identifier list nor any
\* snapshot file holds an identifier twice
C24_NoDuplicates ==
    /\ NoDuplicates(sovereign_ids)
    /\ \A f \in DOMAIN versions_dir : NoDuplicates(versions_dir[f].ids)

\* an amend of a known identifier was turned down, a rollback succeeded
C24_Witness ==
    /\ pc = "idle"
    /\ \E i \in 1..Len(hist) : hist[i].op = "amend" /\ hist[i].ret = "False"
    /\ \E i \in 1..Len(hist) : hist[i].op = "rollback" /\ hist[i].ret = "True"
    /\ sovereign_ids # <<>>

InAmend == pc \in {"amend_open", "amend_dump", "amend_tmp", "amend_replace"}

\* C25: inside amend the snapshot file is written and closed first, then the
\* temporary pointer, then the rename: the temporary pointer is written and
\* the pointer is swapped only with the new snapshot complete (steps of amend
\* itself, not the kill of the process)
C25_AmendOrder ==
    [][(InAmend /\ pc' # "crashed")
       => /\ versions_dir' # versions_dir => pc \in {"amend_open", "amend_dump"}
          /\ tmp_link' # tmp_link
             => \/ /\ pc = "amend_tmp"
                   /\ versions_dir[version_filename] = JsonDump(sovereign_ids)
                \/ pc = "amend_replace"
          /\ (latest_link' # latest_link \/ version_file' # version_file)
             => /\ pc = "amend_replace"
                /\ tmp_link = version_filename
                /\ latest_link' = version_filename
                /\ versions_dir[version_filename] = JsonDump(sovereign_ids)]_vars

\* the pointer has moved from one complete snapshot to a newer one
C25_Witness ==
    /\ Returned("amend")
    /\ Last(hist).ret = "True"
    /\ pre.link # NoFile
    /\ latest_link # pre.link
    /\ Exists(latest_link)
    /\ JsonValid(versions_dir[latest_link])

\* C26: the first run_genesis_experiment call of a Sentinel, every input
\* launched: the VP history has one entry per input, in input order
C26_HistoryEntryPerInput ==
    ( /\ ExperimentReturned
      /\ calls = 1
      /\ \A k \in 1..Len(runs) : runs[k].launched )
    => /\ Len(vp_history) = test_inputs
       /\ \A k \in 1..test_inputs : vp_history[k].vp = runs[k].vp

\* C27: when the launch failed for some input, run_genesis_experiment does
\* not return certified = TRUE
C27_LaunchFailureNotCertified ==
    ( /\ ExperimentReturned
      /\ \E k \in 1..Len(runs) : ~runs[k].launched )
    => ~result.certified

\* C28: at the return of chamber.run the watchdog thread has ended, and run
\* gets to its return whether the child exits early, exits in the grace
\* second or never exits
C28_WatchdogJoined ==
    /\ [](cpc = "ret" => tpc = "done")
    /\ \A beh \in Behaviours : (cpc = "join" /\ child = beh) ~> (cpc = "ret")

\* run has killed a child that never exits and has waited for the thread
C28_Witness ==
    /\ cpc = "ret"
    /\ tpc = "done"
    /\ child = "never"
    /\ "run" \in killers

\* C30: in the trait vector of an input, reliability is 0 exactly if that
\* input's chamber run reported timed_out, whatever resource_exceeded is
C30_ReliabilityIsTimeout ==
    (spc = "loop" /\ inp >= 1 /\ Len(runs) = inp)
    => traits.reliability = (IF runs[inp].timed_out THEN 0 ELSE 1)

\* C31: each input runs in a fresh chamber: when the unit is started on
\* input i, the chamber's directory holds that input's input.txt and nothing
\* else, in particular no file the unit wrote while it ran on an earlier
\* input.
C31_FreshChamberPerInput ==
    (spc = "run" /\ cpc = "launch")
    => /\ DOMAIN chamber_files = {"input.txt"}
       /\ chamber_files["input.txt"] = inp

\* C32: run_genesis_experiment called with an empty test_inputs list ends
\* normally: it returns an empty VP list and certified = TRUE and appends
\* nothing to the VP history.
C32_EmptyInputsCertified ==
    ( /\ spc = "idle"
      /\ result.status \in {"returned", "raised"}
      /\ test_inputs = 0 )
    => /\ result.status = "returned"
       /\ result.vp_values = <<>>
       /\ result.certified
       /\ vp_history = <<>>

\* C33: a VP equal to vp_threshold is on the rejecting side of both strict
\* comparisons: run_genesis_experiment does not certify a unit whose VP on
\* some input equals the threshold, monitor_kernel reports no violation for
\* a VP equal to the threshold, and a VP that monitor_kernel reports as a
\* violation is not below the threshold.
AtThreshold(v) == v[1] = vp_threshold * v[2]
C33_ThresholdStrict ==
    /\ ( /\ ExperimentReturned
         /\ \E k \in 1..Len(runs) : AtThreshold(runs[k].vp) )
       => ~result.certified
    /\ (result.status = "monitored" /\ AtThreshold(result.vp))
       => ~result.violation
    /\ (result.status = "monitored" /\ result.violation)
       => ~(result.vp[1] < vp_threshold * result.vp[2])

\* C34: when amend(x) ends with an I/O error the in-memory list is what it
\* was before the call, x is not in it, and the next amend(x) returns True
\* (and so writes x to disk) instead of returning False.
C34_FailedAmendRetried ==
    /\ (Returned("amend") /\ Last(hist).ret = "oserror")
       => /\ sovereign_ids = pre.ids
          /\ ~Contains(sovereign_ids, Last(hist).arg)
    /\ \A i \in 1..(Len(hist) - 1) :
          ( /\ hist[i].op = "amend" /\ hist[i].ret = "oserror"
            /\ hist[i + 1].op = "amend" /\ hist[i + 1].arg = hist[i].arg )
          => hist[i + 1].ret # "False"

\* C35: a rollback that returns True adds no identifier: in a sequence of
\* amend and rollback calls (also with an amend after an earlier rollback)
\* the list visible after the rollback is a prefix of the list visible
\* immediately before it.
IsPrefix(p, q) == Len(p) <= Len(q) /\ \A i \in 1..Len(p) : p[i] = q[i]
C35_RollbackNeverAdds ==
    ( /\ Returned("rollback")
      /\ Last(hist).ret = "True"
      /\ Faults = 0 )
    => IsPrefix(sovereign_ids, pre.ids)

\* C36: once the first amend on an empty ledger has returned True, no
\* further amend or rollback call (failed ones included) takes that first
\* identifier away: the visible list is never empty again and begins with
\* the content of the first version.
NoKill == \A i \in 1..Len(hist) : hist[i].ret # "killed"
FirstAmendSucceeded ==
    /\ hist # <<>>
    /\ hist[1].op = "amend"
    /\ hist[1].ret = "True"
C36_FirstIdentifierStays ==
    (FirstAmendSucceeded /\ NoKill)
    => /\ sovereign_ids # <<>>
       /\ IsPrefix(<<hist[1].arg>>, sovereign_ids)

\* two amends, a rollback to the first version, a third amend, and a
\* rollback that brings back the second version
C36_Witness ==
    /\ FirstAmendSucceeded
    /\ NoKill
    /\ Returned("rollback")
    /\ Last(hist).ret = "True"
    /\ Len(hist) = 5
    /\ hist[3].op = "rollback" /\ hist[3].ret = "True"
    /\ Len(sovereign_ids) = 2
    /\ sovereign_ids[1] = hist[1].arg

\* C37: with the controller's and the Sentinel's Kernel on one ledger
\* directory, an identifier that a rollback through one instance took out
\* of the pointed-to version is not put back into the pointed-to version by
\* a later amend of another identifier through the other instance.
Elems(ids) == {ids[i] : i \in 1..Len(ids)}
C37_RollbackStaysUndone ==
    \A i, j \in 1..Len(hist) :
        ( /\ i < j
          /\ hist[i].op = "rollback" /\ hist[i].ret = "True"
          /\ hist[j].op = "amend" /\ hist[j].ret = "True"
          /\ hist[j].inst # hist[i].inst )
        => \A y \in Elems(hist[i].before) \ Elems(hist[i].after) :
              ( /\ y # hist[j].arg
                /\ y \notin Elems(hist[j].before) )
              => y \notin Elems(hist[j].after)

====
